---- MODULE Spec2Model ----
(***************************************************************************)
(* Model of changeFileExtensions (src/changeFileExt.go): normalise the two *)
(* extensions, list the folder, and rename every listed entry whose name   *)
(* ends with the old extension, collecting the new paths and the errors.   *)
(*                                                                         *)
(* Strings are sequences of one-character strings, so that suffix tests,   *)
(* trimming and concatenation are computed rather than assumed.  The       *)
(* folder is a function from entry names to [isDir, data]; data is the     *)
(* identity of the entry's content.                                        *)
(***************************************************************************)
EXTENDS Integers, Sequences, FiniteSets, TLC

\* ---- bounds -------------------------------------------------------------
MaxNameLen == 3
MaxExtLen == 2
MaxEntries == 3
\* the bounds of the specification with a concurrent process
MaxExternal == 1
MaxEntriesExternal == 2
MaxExtLenExternal == 1

Alphabet == {"a", "."}

\* byte values of the characters used, for the listing's sort order
Code(c) == CASE c = "." -> 46 [] c = "/" -> 47 [] c = "a" -> 97 [] c = "d" -> 100

SeqsUpTo(S, n) == UNION {[1..k -> S] : k \in 1..n}

RECURSIVE SubsetsUpTo(_, _)
SubsetsUpTo(S, k) ==
    IF k = 0 THEN {{}}
    ELSE LET smaller == SubsetsUpTo(S, k - 1)
         IN  smaller \cup {s \cup {x} : s \in smaller, x \in S}

\* "." and ".." always resolve to directories and are never listed
DotNames == {<<".">>, <<".", ".">>}
EntryNames == SeqsUpTo(Alphabet, MaxNameLen) \ DotNames
\* main rejects empty extensions before calling
ExtInputs == SeqsUpTo(Alphabet, MaxExtLen)
ExtInputsExternal == SeqsUpTo(Alphabet, MaxExtLenExternal)
FolderPaths == {<<"d">>}
FolderStatuses == {"ok", "ENOENT", "ENOTDIR", "EACCES"}

\* ---- the strings package ------------------------------------------------
Contains(s, c) == \E i \in 1..Len(s) : s[i] = c

\* a substring test instead of a suffix test
HasSuffixSubstring(s, suffix) ==
    \E i \in 1..Len(s) :
        /\ i + Len(suffix) - 1 <= Len(s)
        /\ SubSeq(s, i, i + Len(suffix) - 1) = suffix

HasSuffix(s, suffix) ==
    /\ Len(s) >= Len(suffix)
    /\ SubSeq(s, Len(s) - Len(suffix) + 1, Len(s)) = suffix

TrimSuffix(s, suffix) ==
    IF HasSuffix(s, suffix) THEN SubSeq(s, 1, Len(s) - Len(suffix)) ELSE s

\* ---- lines 15-21 --------------------------------------------------------
\* no separator prepended
NormalizeExtNone(ext) == ext

NormalizeExt(ext) == IF ~Contains(ext, ".") THEN <<".">> \o ext ELSE ext

\* ---- the filesystem -----------------------------------------------------
JoinPath(folder, name) == folder \o <<"/">> \o name

BaseName(folder, path) == SubSeq(path, Len(folder) + 2, Len(path))

Lstat(dir, folder, path) ==
    LET n == BaseName(folder, path)
    IN  IF n \in DotNames THEN "dir"
        ELSE IF n \in DOMAIN dir THEN (IF dir[n].isDir THEN "dir" ELSE "file")
        ELSE "none"

LexLess(s, t) ==
    \E i \in 1..(Len(s) + 1) :
        /\ i <= Len(t)
        /\ \A j \in 1..(i - 1) : s[j] = t[j]
        /\ \/ i = Len(s) + 1
           \/ Code(s[i]) < Code(t[i])

RECURSIVE SortNames(_)
SortNames(S) ==
    IF S = {} THEN <<>>
    ELSE LET m == CHOOSE x \in S : \A y \in S \ {x} : LexLess(x, y)
         IN  <<m>> \o SortNames(S \ {m})

\* ioutil.ReadDir: the entries sorted by filename, or the error
ReadDir(dir, status) ==
    IF status # "ok" THEN [err |-> status, files |-> <<>>]
    ELSE LET names == SortNames(DOMAIN dir)
         IN  [err |-> "",
              files |-> [i \in 1..Len(names) |->
                            [name |-> names[i], isDir |-> dir[names[i]].isDir]]]

\* os.Rename on a POSIX system
Rename(dir, folder, oldName, newName) ==
    LET o == BaseName(folder, oldName)
        n == BaseName(folder, newName)
        oldKind == Lstat(dir, folder, oldName)
        newKind == Lstat(dir, folder, newName)
    IN  IF newKind = "dir"
        THEN [err |-> IF oldKind = "none" THEN "ENOENT" ELSE "EEXIST", fs |-> dir]
        ELSE IF oldKind = "none" THEN [err |-> "ENOENT", fs |-> dir]
        ELSE IF oldKind = "dir" /\ newKind = "file" THEN [err |-> "ENOTDIR", fs |-> dir]
        ELSE IF o = n THEN [err |-> "", fs |-> dir]
        ELSE [err |-> "",
              fs |-> [k \in (DOMAIN dir \ {o}) \cup {n} |->
                         IF k = n THEN dir[o] ELSE dir[k]]]

\* ---- the error values ---------------------------------------------------
\* the error without the folder's path
ReadDirErrorNoPath(folder, cause) ==
    [msg |-> "Error reading directory", paths |-> <<>>, cause |-> cause]

ReadDirError(folder, cause) ==
    [msg |-> "Error reading directory", paths |-> <<folder>>, cause |-> cause]

RenameError(oldName, newName, cause) ==
    [msg |-> "Failed to rename", paths |-> <<oldName, newName>>, cause |-> cause]

\* ---- lines 30-41: the body of the loop ----------------------------------
Matches(file, ext) == HasSuffix(file.name, ext)

\* the new extension appended without removing the old one
NewNameForNoTrim(oldName, ext, target) == oldName \o target

\* the two extensions exchanged
NewNameForSwapped(oldName, ext, target) == TrimSuffix(oldName, target) \o ext

NewNameFor(oldName, ext, target) == TrimSuffix(oldName, ext) \o target

\* a failed rename dropped instead of reported
ProcessEntrySwallow(st, file, folder, ext, target) ==
    IF HasSuffix(file.name, ext)
    THEN LET oldName == JoinPath(folder, file.name)
             newName == TrimSuffix(oldName, ext) \o target
             r == Rename(st.fs, folder, oldName, newName)
             att == [old |-> oldName, new |-> newName, err |-> r.err]
         IN  IF r.err # ""
             THEN [st EXCEPT !.attempts = Append(@, att), !.fs = r.fs]
             ELSE [st EXCEPT !.renamedFiles = Append(@, newName),
                             !.attempts = Append(@, att),
                             !.fs = r.fs]
    ELSE st

ProcessEntry(st, file, folder, ext, target) ==
    IF Matches(file, ext)
    THEN LET oldName == JoinPath(folder, file.name)
             newName == NewNameFor(oldName, ext, target)
             r == Rename(st.fs, folder, oldName, newName)
             att == [old |-> oldName, new |-> newName, err |-> r.err]
         IN  IF r.err # ""
             THEN [st EXCEPT !.errors = Append(@, RenameError(oldName, newName, r.err)),
                             !.attempts = Append(@, att),
                             !.fs = r.fs]
             ELSE [st EXCEPT !.renamedFiles = Append(@, newName),
                             !.attempts = Append(@, att),
                             !.fs = r.fs]
    ELSE st

\* after the entry at index i: the next entry, or the return of line 44
\* the loop left at the first failed rename
AfterEntryAbort(i, n, st) == IF i >= n \/ st.errors # <<>> THEN "done" ELSE "loop"

AfterEntry(i, n, st) == IF i >= n THEN "done" ELSE "loop"

\* ---- lines 28-44 as one run, without interleaving -----------------------
RECURSIVE RangeLoop(_, _, _, _, _, _)
RangeLoop(st, listed, i, folder, ext, target) ==
    IF i > Len(listed) THEN st
    ELSE LET next == ProcessEntry(st, listed[i], folder, ext, target)
         IN  IF AfterEntry(i, Len(listed), next) = "done" THEN next
             ELSE RangeLoop(next, listed, i + 1, folder, ext, target)

EmptyResult(dir) == [fs |-> dir, renamedFiles |-> <<>>, errors |-> <<>>, attempts |-> <<>>]

\* ---- lines 11-45 as a function of the folder ----------------------------
ChangeFileExtensions(oldExtIn, newExtIn, folder, status, dir) ==
    LET ext == NormalizeExt(oldExtIn)
        target == NormalizeExt(newExtIn)
        rd == ReadDir(dir, status)
    IN  IF rd.err # ""
        THEN [EmptyResult(dir) EXCEPT !.errors = <<ReadDirError(folder, rd.err)>>]
        ELSE RangeLoop(EmptyResult(dir), rd.files, 1, folder, ext, target)

\* ---- state --------------------------------------------------------------
VARIABLES
    fs,            \* the folder's content now
    folderStatus,  \* what listing the folder yields: "ok" or the error
    folderPath, srcIn, tgtIn,   \* the arguments of the call
    oldExt, newExt,             \* the normalised extensions
    files, idx,                 \* the listing and the loop's position
    renamedFiles, errors,       \* the two results
    attempts,      \* every os.Rename call made, with its outcome
    pc,            \* "idle", "loop" or "done"
    callNo,        \* number of calls started
    fs0,           \* the folder's content when the current call started
    first,         \* the results of the first call, once a second has started
    extCount       \* external modifications so far

vars == <<fs, folderStatus, folderPath, srcIn, tgtIn, oldExt, newExt, files, idx,
          renamedFiles, errors, attempts, pc, callNo, fs0, first, extCount>>

FoldersUpTo(m) ==
    UNION {{[n \in S |-> [isDir |-> k[n], data |-> n]] : k \in [S -> BOOLEAN]} :
              S \in SubsetsUpTo(EntryNames, m)}

NoResult == [renamedFiles |-> <<>>, errors |-> <<>>, fs |-> <<>>, valid |-> FALSE]

InitWith(folders) ==
    /\ folderStatus \in FolderStatuses
    /\ fs \in IF folderStatus \in {"ENOENT", "ENOTDIR"} THEN {<<>>} ELSE folders
    /\ folderPath = <<>> /\ srcIn = <<>> /\ tgtIn = <<>>
    /\ oldExt = <<>> /\ newExt = <<>>
    /\ files = <<>> /\ idx = 0
    /\ renamedFiles = <<>> /\ errors = <<>> /\ attempts = <<>>
    /\ pc = "idle" /\ callNo = 0
    /\ fs0 = fs
    /\ first = NoResult
    /\ extCount = 0

Init == InitWith(FoldersUpTo(MaxEntries))

InitExternal == InitWith(FoldersUpTo(MaxEntriesExternal))

\* lines 11-27, and line 44 when nothing was listed
Enter(o, n, folder) ==
    LET rd == ReadDir(fs, folderStatus)
    IN  /\ folderPath' = folder /\ srcIn' = o /\ tgtIn' = n
        /\ oldExt' = NormalizeExt(o)
        /\ newExt' = NormalizeExt(n)
        /\ renamedFiles' = <<>>
        /\ attempts' = <<>>
        /\ fs0' = fs
        /\ callNo' = callNo + 1
        /\ IF rd.err # ""
           THEN /\ errors' = <<ReadDirError(folder, rd.err)>>
                /\ files' = <<>> /\ idx' = 0
                /\ pc' = "done"
           ELSE /\ errors' = <<>>
                /\ files' = rd.files /\ idx' = 1
                /\ pc' = IF Len(rd.files) = 0 THEN "done" ELSE "loop"
        /\ UNCHANGED <<fs, folderStatus, extCount>>

Call ==
    /\ pc = "idle"
    /\ \E o \in ExtInputs, n \in ExtInputs, folder \in FolderPaths :
          Enter(o, n, folder)
    /\ UNCHANGED first

\* a second run with the same arguments on the folder the first one left
CallAgain ==
    /\ pc = "done" /\ callNo = 1
    /\ first' = [renamedFiles |-> renamedFiles, errors |-> errors, fs |-> fs0,
                 valid |-> TRUE]
    /\ Enter(srcIn, tgtIn, folderPath)

\* one iteration of the loop of line 28
Step ==
    /\ pc = "loop"
    /\ LET st == [fs |-> fs, renamedFiles |-> renamedFiles, errors |-> errors,
                  attempts |-> attempts]
           next == ProcessEntry(st, files[idx], folderPath, oldExt, newExt)
       IN  /\ fs' = next.fs
           /\ renamedFiles' = next.renamedFiles
           /\ errors' = next.errors
           /\ attempts' = next.attempts
           /\ pc' = AfterEntry(idx, Len(files), next)
    /\ idx' = idx + 1
    /\ UNCHANGED <<folderStatus, folderPath, srcIn, tgtIn, oldExt, newExt, files,
                   callNo, fs0, first, extCount>>

\* another process deletes an entry, or replaces it by one of the other kind
External ==
    /\ pc = "loop" /\ callNo = 1
    /\ extCount < MaxExternal
    /\ \E n \in DOMAIN fs :
          \/ fs' = [k \in DOMAIN fs \ {n} |-> fs[k]]
          \/ fs' = [fs EXCEPT ![n] = [isDir |-> ~fs[n].isDir, data |-> <<>>]]
    /\ extCount' = extCount + 1
    /\ UNCHANGED <<folderStatus, folderPath, srcIn, tgtIn, oldExt, newExt, files, idx,
                   renamedFiles, errors, attempts, pc, callNo, fs0, first>>

CallExternal ==
    /\ pc = "idle"
    /\ \E o \in ExtInputsExternal, n \in ExtInputsExternal, folder \in FolderPaths :
          Enter(o, n, folder)
    /\ UNCHANGED first

\* one call
Next == Call \/ Step

Spec == Init /\ [][Next]_vars

\* one call, then a second one with the same arguments
NextRepeat == Call \/ Step \/ CallAgain

SpecRepeat == Init /\ [][NextRepeat]_vars

\* one call, with another process changing the folder while the loop runs;
\* the loop is straight-line code, so each iteration is eventually taken
NextExternal == CallExternal \/ Step \/ External

SpecExternal == InitExternal /\ [][NextExternal]_vars /\ WF_vars(Step)

\* ---- vocabulary of the properties ---------------------------------------
\* the last Len(e) characters of s are e
EndsWith(s, e) ==
    /\ Len(e) <= Len(s)
    /\ \A i \in 1..Len(e) : s[Len(s) - Len(e) + i] = e[i]

\* s without its last Len(e) characters
Stem(s, e) == [i \in 1..(Len(s) - Len(e)) |-> s[i]]

PathOf(name) == folderPath \o <<"/">> \o name

Range(seq) == {seq[i] : i \in 1..Len(seq)}

\* an extension with the separator in front, unless it is there already
WithSeparator(e) == IF e[1] = "." THEN e ELSE <<".">> \o e

DotFree(e) == \A i \in 1..Len(e) : e[i] # "."

\* the call has returned, after a listing that succeeded
Returned == pc = "done" /\ folderStatus = "ok"

\* the listed entries whose name ends with the extension matched against
MatchedFiles == SelectSeq(files, LAMBDA f : EndsWith(f.name, oldExt))

Failed(a) == a.err # ""
Succeeded(a) == a.err = ""

\* C1: an entry listed as a directory is never renamed: at the return it is
\* still there under its name, unchanged, and no rename was attempted on it.
C1_DirectoriesSkipped ==
    Returned =>
        \A i \in 1..Len(files) :
            files[i].isDir =>
                /\ files[i].name \in DOMAIN fs
                /\ fs[files[i].name] = fs0[files[i].name]
                /\ \A k \in 1..Len(attempts) : attempts[k].old # PathOf(files[i].name)

\* C2: when the listing fails the call returns no renamed path and exactly one
\* error, which names the folder; no rename was attempted and the folder's
\* content is what it was.
C2_ListingFailure ==
    (pc = "done" /\ folderStatus # "ok") =>
        /\ renamedFiles = <<>>
        /\ Len(errors) = 1
        /\ errors[1].msg = "Error reading directory"
        /\ folderPath \in Range(errors[1].paths)
        /\ attempts = <<>>
        /\ fs = fs0

C2_Witness ==
    /\ pc = "done" /\ folderStatus = "EACCES"
    /\ \E n \in DOMAIN fs : ~fs[n].isDir /\ EndsWith(n, oldExt)

\* C3: a failed rename does not end the batch: when the call returns with
\* errors, every listed entry whose name matches was still attempted, and every
\* attempt that succeeded put its new path in renamedFiles.
C3_FailureDoesNotAbort ==
    (Returned /\ errors # <<>>) =>
        /\ \A i \in 1..Len(files) :
              EndsWith(files[i].name, oldExt) =>
                  \E k \in 1..Len(attempts) : attempts[k].old = PathOf(files[i].name)
        /\ \A k \in 1..Len(attempts) :
              Succeeded(attempts[k]) => attempts[k].new \in Range(renamedFiles)
        /\ Len(renamedFiles) = Len(SelectSeq(attempts, Succeeded))

\* a failure before a success and a success before a failure, in one call
C3_Witness ==
    /\ Returned /\ errors # <<>> /\ renamedFiles # <<>>
    /\ \E j, k, l \in 1..Len(attempts) :
          /\ j < k /\ k < l
          /\ Succeeded(attempts[j]) /\ Failed(attempts[k]) /\ Succeeded(attempts[l])

\* C4: when renaming a file fails because its new name is a directory, there
\* is exactly one error for that pair of paths, the new path is not reported
\* as renamed, a file is still there under the old name and the directory at
\* the new name is unchanged when the call returns.
C4_DestinationIsDirectory ==
    Returned =>
        \A k \in 1..Len(attempts) : \A n, m \in DOMAIN fs0 :
            ( /\ attempts[k].old = PathOf(n) /\ attempts[k].new = PathOf(m)
              /\ ~fs0[n].isDir /\ fs0[m].isDir
              /\ attempts[k].err = "EEXIST" ) =>
                /\ Cardinality({j \in 1..Len(errors) :
                                   errors[j].paths = <<PathOf(n), PathOf(m)>>}) = 1
                /\ PathOf(m) \notin Range(renamedFiles)
                /\ n \in DOMAIN fs /\ ~fs[n].isDir
                /\ m \in DOMAIN fs /\ fs[m] = fs0[m]

\* a call whose extensions are used with one separator in front and whose
\* folder has no directory ending with the old one
PlainCall ==
    /\ oldExt = WithSeparator(srcIn)
    /\ newExt = WithSeparator(tgtIn)
    /\ \A n \in DOMAIN fs0 : fs0[n].isDir => ~EndsWith(n, oldExt)

\* C5 as stated, already on the plain calls: every entry whose name does not
\* end with the extension matched against is there at the return, with the
\* same kind and content.
C5_NonMatchingUntouched ==
    (Returned /\ PlainCall) =>
        \A n \in DOMAIN fs0 :
            ~EndsWith(n, oldExt) => (n \in DOMAIN fs /\ fs[n] = fs0[n])

\* n is a file standing where a matching file of the listing is renamed to
IsDestination(n) ==
    /\ ~fs0[n].isDir
    /\ \E m \in DOMAIN fs0 :
          /\ EndsWith(m, oldExt) /\ ~fs0[m].isDir
          /\ n = Stem(m, oldExt) \o newExt

\* C5 amended: every entry whose name does not end with the extension matched
\* against, and that is not a file standing at the new name of a matching file,
\* is there at the return with the same kind and content.
C5_NonMatchingUntouchedUnlessDestination ==
    Returned =>
        \A n \in DOMAIN fs0 :
            (~EndsWith(n, oldExt) /\ ~IsDestination(n)) =>
                (n \in DOMAIN fs /\ fs[n] = fs0[n])

\* a rename succeeded next to a file that does not match and is no destination
C5_Witness ==
    /\ Returned /\ renamedFiles # <<>>
    /\ \E n \in DOMAIN fs0 :
          /\ ~EndsWith(n, oldExt) /\ ~IsDestination(n) /\ ~fs0[n].isDir
          /\ n \in DOMAIN fs
    /\ \E n \in DOMAIN fs0 : IsDestination(n) /\ ~EndsWith(n, oldExt)

\* C6: both extensions used by the call begin with the separator: an argument
\* that does not start with it gets one prepended, one that does is unchanged.
C6_LeadingSeparator ==
    pc # "idle" =>
        /\ oldExt = WithSeparator(srcIn)
        /\ newExt = WithSeparator(tgtIn)

\* C7 as stated, already on the plain calls: a second call with the same
\* arguments, after a first call that returned no error, attempts nothing and
\* returns two empty results.
C7_SecondCallEmpty ==
    (pc = "done" /\ callNo = 2 /\ first.errors = <<>> /\ PlainCall) =>
        /\ attempts = <<>>
        /\ renamedFiles = <<>>
        /\ errors = <<>>

NeitherEndsWithTheOther == ~EndsWith(newExt, oldExt) /\ ~EndsWith(oldExt, newExt)

\* C7 amended: the same, when neither of the two extensions used ends with the
\* other one.
C7_SecondCallEmptyUnlessOverlap ==
    (pc = "done" /\ callNo = 2 /\ first.errors = <<>> /\ NeitherEndsWithTheOther) =>
        /\ attempts = <<>>
        /\ renamedFiles = <<>>
        /\ errors = <<>>

C7_Witness ==
    /\ pc = "done" /\ callNo = 2
    /\ first.errors = <<>> /\ Len(first.renamedFiles) >= 2
    /\ NeitherEndsWithTheOther

\* every listed matching entry was attempted once, in the listing's order, and
\* every failed attempt is one error naming its two paths
EveryMatchAttempted ==
    /\ Len(attempts) = Len(MatchedFiles)
    /\ \A k \in 1..Len(attempts) : attempts[k].old = PathOf(MatchedFiles[k].name)
    /\ Len(errors) = Len(SelectSeq(attempts, Failed))
    /\ \A k \in 1..Len(errors) :
          /\ errors[k].msg = "Failed to rename"
          /\ errors[k].paths = <<SelectSeq(attempts, Failed)[k].old,
                                 SelectSeq(attempts, Failed)[k].new>>

\* C8: with another process deleting or replacing entries while the loop
\* runs, the call returns, and when it does every listed matching entry was
\* attempted and every rename that failed is one error.
C8_ExternalChange ==
    /\ [](Returned => EveryMatchAttempted)
    /\ (pc = "loop") ~> (pc = "done")

\* the other process removed a listed entry; its rename failed for that and a
\* later entry was renamed
C8_Witness ==
    /\ Returned /\ extCount > 0
    /\ \E j, k \in 1..Len(attempts) :
          /\ j < k
          /\ attempts[j].err = "ENOENT"
          /\ Succeeded(attempts[k])

\* C9: a call whose old extension is a token without separator returns what the
\* call with the separator in front returns on the same folder, and leaves the
\* folder with the same content; and the other way round.
C9_SeparatorOptional ==
    (pc = "done" /\ callNo = 1) =>
        LET got == [fs |-> fs, renamedFiles |-> renamedFiles, errors |-> errors,
                    attempts |-> attempts]
        IN  /\ DotFree(srcIn) =>
                got = ChangeFileExtensions(<<".">> \o srcIn, tgtIn, folderPath,
                                           folderStatus, fs0)
            /\ (Len(srcIn) > 1 /\ srcIn[1] = "." /\ DotFree(Tail(srcIn))) =>
                got = ChangeFileExtensions(Tail(srcIn), tgtIn, folderPath,
                                           folderStatus, fs0)

C9_Witness ==
    /\ pc = "done" /\ callNo = 1 /\ folderStatus = "ok"
    /\ DotFree(srcIn)
    /\ renamedFiles # <<>> /\ errors # <<>>

\* C10: the two results split the matched entries in the listing's order: one
\* attempt per listed entry whose name ends with the extension, from its path
\* to that path with the extension cut off and the new one appended; the new
\* paths of the attempts that succeeded are renamedFiles, the attempts that
\* failed are errors, and the two lengths add up to the number of matches.
C10_ResultsPartitionMatches ==
    Returned =>
        LET ok == SelectSeq(attempts, Succeeded)
            ko == SelectSeq(attempts, Failed)
        IN  /\ Len(attempts) = Len(MatchedFiles)
            /\ \A k \in 1..Len(attempts) :
                  /\ attempts[k].old = PathOf(MatchedFiles[k].name)
                  /\ attempts[k].new = Stem(attempts[k].old, oldExt) \o newExt
            /\ renamedFiles = [k \in 1..Len(ok) |-> ok[k].new]
            /\ [k \in 1..Len(errors) |-> errors[k].paths]
                  = [k \in 1..Len(ko) |-> <<ko[k].old, ko[k].new>>]
            /\ Len(renamedFiles) + Len(errors) = Len(MatchedFiles)

\* a listed name that contains the extension without ending with it, between
\* a rename that failed and one that succeeded
C10_Witness ==
    /\ Returned /\ renamedFiles # <<>> /\ errors # <<>>
    /\ \E i \in 1..Len(files) :
          /\ ~EndsWith(files[i].name, oldExt)
          /\ \E j \in 1..Len(files[i].name) :
                /\ j + Len(oldExt) - 1 <= Len(files[i].name)
                /\ SubSeq(files[i].name, j, j + Len(oldExt) - 1) = oldExt

====
